---- MODULE Spec2Model ----
(***************************************************************************)
(* Download-session and progress-streaming pipeline of app.py:             *)
(*   get_download_url / force_download   (Session Registry + Engine)       *)
(*   proxy_download                      (Engine with Progress Store)      *)
(*   get_download_progress.generate      (Progress Publisher)              *)
(* Byte counts are in KiB; percentages are in tenths of a percent, the     *)
(* resolution round(x, 1) keeps.                                           *)
(***************************************************************************)
EXTENDS Integers, Sequences, FiniteSets, TLC

\* ------------------------------------------------------------------ bounds
\* Largest value of the millisecond clock the session ids are drawn from.
MaxClock == 1
\* Chunks an upstream body of unknown length (no Content-Length) may have.
MaxChunks == 2
\* Progress callbacks with status "downloading" the extractor issues per stream.
MaxHooks == 2
\* get_download_url calls in one run.
MaxSessions == 2
\* Streams (video, audio) the extractor downloads in one delegated transfer.
MaxStreams == 2
\* Runs of the Retention Sweeper that are followed.
MaxSweeps == 2
\* Hours of wall-clock time that are followed.
MaxHours == 25

\* --------------------------------------------------------- program constants
MAX_DOWNLOAD_SIZE_MB == 500
max_bytes == MAX_DOWNLOAD_SIZE_MB * 1024          \* in KiB
chunk_size == 512                                 \* 524288 bytes, in KiB
max_timeout == 180                                \* seconds
POLL_TENTHS == 3                                  \* time.sleep(0.3), in 1/10 s

\* ------------------------------------------------------------------ values
None == "None"
Absent == -1

FDReqs == {"f1", "f2"}          \* concurrent force_download requests
PDReqs == {"p1", "p2"}          \* concurrent proxy_download requests
SoloReqs == {"p1"}              \* one proxy_download request followed alone
SessionIds == 0..MaxClock

PageUrl == "https://www.bilibili.tv/en/video/2040"
PublicUrl == "https://cdn.example.com/v.mp4"
PrivateUrl == "http://10.0.0.5/v.mp4"
VideoUrls == {None, PageUrl}
DirectUrls == {None, PublicUrl, PrivateUrl}
Platforms == {"instagram", "bilibili_tv", "youtube"}

\* ---------------------------------------------------------------- URL text
\* A string is the sequence of its pieces, so that splitting, partitioning and
\* suffix tests are computed on the text.  Text(url) is the text of a URL of
\* the engines.
Text(url) ==
  CASE url = PageUrl -> <<"https", "://", "www.bilibili.tv", "/en/video/2040">>
    [] url = PublicUrl -> <<"https", "://", "cdn.example.com", "/v.mp4">>
    [] url = PrivateUrl -> <<"http", "://", "10.0.0.5", "/v.mp4">>
    [] OTHER -> <<>>

UrlSchemes == {"http", "https", "ftp"}
PathPieces == {"/v.mp4", "/en/video/2040"}

\* Position of the first / last occurrence of piece in s (0: none)
FirstAt(s, piece) ==
  IF \E i \in 1..Len(s) : s[i] = piece
  THEN CHOOSE i \in 1..Len(s) : s[i] = piece /\ \A j \in 1..(i - 1) : s[j] # piece
  ELSE 0

LastAt(s, piece) ==
  IF \E i \in 1..Len(s) : s[i] = piece
  THEN CHOOSE i \in 1..Len(s) : s[i] = piece /\ \A j \in (i + 1)..Len(s) : s[j] # piece
  ELSE 0

\* s.split(':', 1)[0]
SplitColon(s) ==
  IF FirstAt(s, ":") = 0 THEN s ELSE SubSeq(s, 1, FirstAt(s, ":") - 1)

\* host.startswith(allowed)
startswith(host, allowed) ==
  /\ Len(allowed) <= Len(host)
  /\ SubSeq(host, 1, Len(allowed)) = allowed

\* host.endswith(allowed)
endswith(host, allowed) ==
  /\ Len(allowed) <= Len(host)
  /\ SubSeq(host, Len(host) - Len(allowed) + 1, Len(host)) = allowed

\* urllib.parse.urlparse: .scheme, .netloc and .hostname ('' for None)
urlparse(raw_url) ==
  LET scheme == IF Len(raw_url) >= 2 /\ raw_url[2] = "://" /\ raw_url[1] \in UrlSchemes
                THEN raw_url[1] ELSE ""
      rest == IF scheme = "" THEN <<>> ELSE SubSeq(raw_url, 3, Len(raw_url))
      path_at == IF \E i \in 1..Len(rest) : rest[i] \in PathPieces
                 THEN CHOOSE i \in 1..Len(rest) :
                        rest[i] \in PathPieces /\ \A j \in 1..(i - 1) : rest[j] \notin PathPieces
                 ELSE Len(rest) + 1
      netloc == SubSeq(rest, 1, path_at - 1)
      hostinfo == SubSeq(netloc, LastAt(netloc, "@") + 1, Len(netloc))
  IN [scheme |-> scheme, netloc |-> netloc, hostname |-> SplitColon(hostinfo)]

\* ------------------------------------------------------------- Safety Gate
\* ipaddress: the class of an address.  Every class but "public" makes one of
\* is_private, is_loopback, is_reserved, is_link_local true.
AddressKinds == {"public", "private", "loopback", "link_local", "reserved"}

\* What the name service can answer for a host name: an address, or an error
Answers == AddressKinds \cup {"error"}

LiteralKind(piece) ==
  CASE piece = "10.0.0.5" -> "private"
    [] piece = "127.0.0.1" -> "loopback"
    [] piece = "169.254.169.254" -> "link_local"
    [] piece = "240.0.0.1" -> "reserved"
    [] piece = "93.184.216.34" -> "public"
    [] OTHER -> "name"

\* socket.gethostbyname(hostname), classified: an address literal is its own
\* address, '' is 0.0.0.0, text with '@' is no host name, and a host name gets
\* the answer of the name service.
gethostbyname(hostname, answer) ==
  IF hostname = <<>> THEN "private"
  ELSE IF Len(hostname) = 1 /\ LiteralKind(hostname[1]) # "name"
       THEN LiteralKind(hostname[1])
  ELSE IF FirstAt(hostname, "@") # 0 THEN "error"
  ELSE answer

_host_is_private(host, answer) ==
  LET hostname == SplitColon(host)
      ip == gethostbyname(hostname, answer)
  IN IF ip = "error" THEN FALSE          \* except Exception: return False
     ELSE ip # "public"

\* allow_hosts=None
NoAllowHosts == {}

is_safe_public_url(raw_url, allow_hosts, answer) ==
  LET u == urlparse(raw_url)
  IN IF u.scheme \notin {"http", "https"} THEN FALSE
     ELSE IF u.netloc = <<>> THEN FALSE
     ELSE IF _host_is_private(u.netloc, answer) THEN FALSE
     ELSE IF allow_hosts # {}
          THEN \E allowed \in allow_hosts : endswith(u.hostname, allowed)
     ELSE TRUE

\* The hosts of the engines' URLs resolve to public addresses
EngineAnswer == "public"

\* direct_url and direct_url.startswith('http')
StartsWithHttp(url) ==
  url # None /\ Len(Text(url)) > 0 /\ Text(url)[1] \in {"http", "https"}

\* proxy_image: allow_hosts
ImageHosts ==
  {<<"cdn", "instagram.com">>, <<"instagram.com">>, <<"fbcdn.net">>, <<"facebook.com">>}

\* Inputs of the Safety Gate: scheme://[user@]host[:port]/path with the host
\* possibly empty, the empty text, and a text without a scheme
GateHosts ==
  {<<>>, <<"cdn.example.com">>, <<"scontent.", "cdn", "instagram.com">>,
   <<"evil.com">>, <<"evil", "instagram.com">>, <<"instagram.com", ".evil.net">>,
   <<"10.0.0.5">>, <<"127.0.0.1">>, <<"169.254.169.254">>, <<"240.0.0.1">>,
   <<"93.184.216.34">>}

MkUrl(scheme, userinfo, host, port) ==
  <<scheme, "://">> \o userinfo \o host \o port \o <<"/v.mp4">>

GateUrls ==
  {MkUrl(scheme, userinfo, host, port) :
     scheme \in UrlSchemes, userinfo \in {<<>>, <<"user", "@">>},
     host \in GateHosts, port \in {<<>>, <<":", "8080">>}}
  \cup {<<>>, <<"cdn.example.com", "/v.mp4">>}

AllowLists == {NoAllowHosts, {<<"cdn", "instagram.com">>}, ImageHosts}

GateIdle ==
  [pc |-> "idle", raw_url |-> <<>>, allow_hosts |-> NoAllowHosts,
   answer |-> EngineAnswer, result |-> FALSE, status |-> 0,
   \* history: the URL the gate was asked about, the URL that was fetched
   checked |-> <<>>, fetched |-> <<>>]

\* ------------------------------------------------------------------- state
VARIABLES
  clock,              \* time.time() in ms
  n_created,          \* get_download_url calls so far
  session_no,         \* history: session id -> number of the call that created the session
  pending_attr,       \* hasattr(get_download_url, 'pending_downloads')
  pending_downloads,  \* get_download_url.pending_downloads: session id -> payload
  download_progress,  \* download_progress: session id -> snapshot
  tasks,              \* DownloadTask rows: session id -> row
  tmp,                \* per request: the temp dir of tempfile.mkdtemp() and its files
  fd,                 \* force_download requests
  pd,                 \* proxy_download requests
  pub,                \* get_download_progress.generate
  now,                \* datetime.utcnow(), in hours
  gate,               \* proxy_image requests and their Safety Gate call
  n_sweeps,           \* history: runs of cleanup_expired_tasks so far
  sched,              \* FileCleanupScheduler: flags, its thread, the swept folders
  db_up,              \* the database answers; when it does not, every db call raises
  calls               \* task_service calls in flight, per calling thread

vars == <<clock, n_created, session_no, pending_attr, pending_downloads, download_progress, tasks, tmp, fd, pd, pub, now, gate, n_sweeps, sched, db_up, calls>>

\* f with key k removed / set
Del(f, k) == [x \in (DOMAIN f) \ {k} |-> f[x]]
Put(f, k, v) == [x \in (DOMAIN f) \cup {k} |-> IF x = k THEN v ELSE f[x]]
Empty == [x \in {} |-> 0]

NoTmp == [dir |-> FALSE, file |-> FALSE, parts |-> FALSE]

\* A Progress Snapshot; a key the payload does not carry is Absent.
Snap(status, message, percent, downloaded, total) ==
  [status |-> status, message |-> message, percent |-> percent,
   downloaded |-> downloaded, total |-> total]

NoSnapshot == Snap(None, None, Absent, Absent, Absent)

\* The temp file path of a request (os.path.join(temp_dir, filename))
TempPath(r) == r

\* ------------------------------------------------------------ task_service
DOWNLOAD_RETENTION_HOURS == 24

\* config lookup of the retention window (24 as well when the lookup fails)
_retention_hours == DOWNLOAD_RETENTION_HOURS

NewTask ==
  [platform |-> None, source_url |-> None, direct_url |-> None,
   requested_filename |-> None, storage_path |-> None, storage_type |-> None,
   file_size |-> Absent, status |-> None, message |-> None,
   last_progress |-> NoSnapshot, last_accessed_at |-> Absent,
   expires_at |-> Absent]

\* DownloadTask.touch
touch(task) == [task EXCEPT !.last_accessed_at = now]

\* an expiry that is set once and never moved
extend_expiry_once(task, hours) ==
  IF task.expires_at # Absent THEN task
  ELSE [task EXCEPT !.expires_at = IF hours # 0 /\ hours > 0 THEN now + hours ELSE now]

\* DownloadTask.extend_expiry
extend_expiry(task, hours) ==
  [task EXCEPT !.expires_at = IF hours # 0 /\ hours > 0 THEN now + hours ELSE now]

NoDefaults ==
  [platform |-> None, source_url |-> None, direct_url |-> None,
   requested_filename |-> None, status |-> None, message |-> None]

\* setattr(task, key, value) only when value is not None
Pick(value, old) == IF value # None THEN value ELSE old

upsert_task(t, session_id, defaults) ==
  LET created == session_id \notin DOMAIN t
      task == IF created THEN NewTask ELSE t[session_id]
      set == [task EXCEPT
                !.platform = Pick(defaults.platform, @),
                !.source_url = Pick(defaults.source_url, @),
                !.direct_url = Pick(defaults.direct_url, @),
                !.requested_filename = Pick(defaults.requested_filename, @),
                !.status = Pick(defaults.status, @),
                !.message = Pick(defaults.message, @)]
      kept == extend_expiry(touch(set), _retention_hours)
      row == IF created /\ kept.status = None
             THEN [kept EXCEPT !.status = "pending"] ELSE kept
  IN Put(t, session_id, row)

mark_status(t, session_id, status, message, progress) ==
  LET t1 == upsert_task(t, session_id, NoDefaults)
  IN [t1 EXCEPT ![session_id] =
        extend_expiry(touch([@ EXCEPT !.status = status,
                                      !.message = Pick(message, @),
                                      !.last_progress = progress]),
                      _retention_hours)]

register_storage(t, session_id, path, file_size) ==
  LET t1 == upsert_task(t, session_id, NoDefaults)
  IN [t1 EXCEPT ![session_id] =
        touch([@ EXCEPT !.storage_path = path,
                        !.storage_type = "temp",
                        !.file_size = IF file_size # Absent THEN file_size ELSE @])]

\* a mirror that stores the default status of payload.get('status', 'unknown')
_update_progress_unknown(session_id, payload, t) ==
  /\ download_progress' = Put(download_progress, session_id, payload)
  /\ tasks' = IF db_up
              THEN mark_status(t, session_id, "unknown", payload.message, payload)
              ELSE tasks

\* a mirror whose database error reaches the caller before the snapshot is kept
_update_progress_raises(session_id, payload, t) ==
  IF db_up
  THEN /\ download_progress' = Put(download_progress, session_id, payload)
       /\ tasks' = mark_status(t, session_id, payload.status, payload.message, payload)
  ELSE UNCHANGED <<download_progress, tasks>>

\* _update_progress(session_id, payload), app.py 103-111, applied to the task
\* rows t the handler's earlier task_service calls left.  Those calls and
\* mark_status log a database error and return (app.py 108-111, 1297-1305,
\* task_service.py 45-51, 56-62): with the database down the rows stay as
\* they were.
_update_progress(session_id, payload, t) ==
  /\ download_progress' = Put(download_progress, session_id, payload)
  /\ tasks' = IF db_up
              THEN mark_status(t, session_id, payload.status, payload.message, payload)
              ELSE tasks

\* ------------------------------------------------------- force_download state
NoPayload ==
  [video_url |-> None, direct_url |-> None, format_id |-> None,
   filename |-> None, platform |-> None]

FdIdle ==
  [pc |-> "idle", session_id |-> 0, info |-> NoPayload, direct_url |-> None,
   status |-> 0,
   \* history: the session whose payload the lookup obtained (0: none), and
   \* whether the outbound fetch or the extractor was started
   session_no |-> 0, fetched |-> FALSE,
   \* history: the URL the Safety Gate passed, the URL handed to requests.get
   checked |-> None, fetched_url |-> None,
   \* history: the upstream status code when it was not 200 (0: none)
   upstream |-> 0]

\* Request bodies of get_download_url (no field is validated)
Payloads ==
  {p \in [video_url : VideoUrls, direct_url : DirectUrls, format_id : {"f1"},
          filename : {"clip.mp4"}, platform : {"bilibili_tv", "youtube"}] :
     p.video_url = None => (p.platform = "bilibili_tv" /\ p.direct_url = PublicUrl)}

\* proxy_download request state
PdIdle ==
  [pc |-> "idle", session_id |-> 0, video_url |-> None, direct_url |-> None,
   format_id |-> None, filename |-> None, platform |-> None, status |-> 0,
   total_size |-> 0, downloaded |-> 0, stream |-> 0, hooks |-> 0,
   \* history: the mode taken, whether this request wrote a Progress Store entry,
   \* the percent of the last "downloading" snapshot it wrote, how streaming ended
   mode |-> "none", wrote |-> FALSE, last_pct |-> Absent, ended |-> "none",
   \* history: the URL the Safety Gate passed, the URL handed to requests.get,
   \* the upstream status code (0: no response)
   checked |-> None, fetched_url |-> None, upstream |-> 0,
   \* history: the last snapshot this request wrote
   written |-> NoSnapshot]

\* The swept folders (config.py 29-30) and what os.listdir finds in them:
\* regular files and a sub-directory, mtime in hours on the scale of `now`
Folders == {"uploads", "outputs"}
FolderEntries ==
  {[folder |-> "uploads", name |-> "a.pdf", kind |-> "file", mtime |-> 0 - 30],
   [folder |-> "uploads", name |-> "b.tmp", kind |-> "file", mtime |-> 0],
   [folder |-> "uploads", name |-> "cache", kind |-> "dir", mtime |-> 0 - 30],
   [folder |-> "outputs", name |-> "c.mp4", kind |-> "file", mtime |-> 0 - 30]}

\* What raises during one sweep: os.listdir of a folder, getmtime / getsize /
\* remove of a file, cleanup_expired_tasks
NoFailure == [folders |-> {}, files |-> {}, rows |-> FALSE]
SweepFailures == [folders : SUBSET Folders, files : {{}, {"a.pdf"}}, rows : BOOLEAN]
LoopFailures == {NoFailure, [folders |-> Folders, files |-> {"a.pdf"}, rows |-> TRUE]}
FolderStates == {{}, FolderEntries}

\* The threads that call task_service at once, and a thread outside any call.
\* history: a call of the thread raised IntegrityError; a call committed
Callers == {"t1", "t2"}
NoCall ==
  [pc |-> "idle", op |-> None, session_id |-> 0, created |-> FALSE,
   failed |-> FALSE, done |-> FALSE]

\* FileCleanupScheduler() before init_app

SchedOff ==
  [enabled |-> FALSE, running |-> FALSE, track_tasks |-> FALSE, inited |-> FALSE,
   thread |-> "none", slept |-> 0, stop |-> "idle", folders |-> {},
   \* history: what raised in the last sweep; flipped by every call of
   \* cleanup_old_files; the loop has read running = False; a sweep was started
   \* after that
   errors |-> NoFailure,
   \* a loop thread started earlier that self.thread no longer refers to
   orphan |-> "none", orphan_slept |-> 0,
   call_bit |-> FALSE, observed |-> FALSE, late_sweep |-> FALSE]

InitEngines ==
  /\ clock = 0
  /\ n_created = 0
  /\ session_no = Empty
  /\ pending_attr = FALSE
  /\ pending_downloads = Empty
  /\ download_progress = Empty
  /\ tasks = Empty
  /\ tmp = [r \in FDReqs \cup PDReqs |-> NoTmp]
  /\ fd = [r \in FDReqs |-> FdIdle]
  /\ pd = [q \in PDReqs |-> PdIdle]
  /\ now = 0
  /\ n_sweeps = 0
  /\ sched = SchedOff
  /\ db_up = TRUE
  /\ calls = [c \in Callers |-> NoCall]
  /\ pub = [pc |-> "idle", session_id |-> 0, last_status |-> NoSnapshot, timeout |-> 0,
            n_timeout |-> 0,
            \* history: the entry was found; an event was pushed; a "streaming"
            \* event was pushed; a tick found the entry gone after it was found
            seen |-> FALSE, sent_any |-> FALSE, sent_streaming |-> FALSE,
            saw_gone |-> FALSE,
            \* history: the last event pushed, and whether the last tick pushed one
            last_event |-> NoSnapshot, pushed |-> FALSE]

Init ==
  /\ InitEngines
  /\ gate = GateIdle

\* time passes
Tick ==
  /\ clock < MaxClock
  /\ clock' = clock + 1
  /\ UNCHANGED <<n_created, session_no, pending_attr, pending_downloads, download_progress, tasks, tmp, fd, pd, pub, now, gate, n_sweeps, sched, db_up, calls>>

\* POST /api/get-download-url
get_download_url(payload) ==
  LET session_id == clock
  IN /\ n_created < MaxSessions
     /\ n_created' = n_created + 1
     /\ session_no' = Put(session_no, session_id, n_created + 1)
     /\ pending_attr' = TRUE
     /\ pending_downloads' = Put(pending_downloads, session_id, payload)
     /\ tasks' = IF db_up
                 THEN upsert_task(tasks, session_id,
                        [platform |-> payload.platform, source_url |-> payload.video_url,
                         direct_url |-> payload.direct_url,
                         requested_filename |-> payload.filename,
                         status |-> "pending", message |-> "Waiting for download request"])
                 ELSE tasks
     /\ UNCHANGED <<clock, download_progress, tmp, fd, pd, pub, now, gate, n_sweeps, sched, db_up, calls>>

\* Outcomes of extract_bilibili_tv_info(video_url) as force_download uses them:
\* the url of the format with the chosen format_id, the url of formats[0], or
\* no formats (None): the stored direct_url is kept.
FreshUrls == {PublicUrl, PrivateUrl}

\* Content-Length headers an upstream may send, in KiB (0: no header)
ContentLengths == {0, 2 * chunk_size, 12 * chunk_size, max_bytes + chunk_size}

\* return <body>, code: the request ends and its locals are gone
FdReturn(r, code) ==
  [fd[r] EXCEPT !.pc = "done", !.status = code, !.info = NoPayload, !.direct_url = None]

\* app.py 1059-1070: look the session up and copy its fields
FD_Lookup(r, session_id) ==
  /\ fd[r].pc = "idle"
  /\ IF ~pending_attr \/ session_id \notin DOMAIN pending_downloads
     THEN fd' = [fd EXCEPT ![r] = [@ EXCEPT !.pc = "done", !.status = 404,
                                              !.session_id = session_id]]
     ELSE LET info == pending_downloads[session_id]
          IN fd' = [fd EXCEPT ![r] =
                      [@ EXCEPT !.pc = IF info.platform = "bilibili_tv" /\ info.video_url # None
                                       THEN "refresh" ELSE "route",
                                !.session_id = session_id,
                                !.info = info,
                                !.direct_url = info.direct_url,
                                !.session_no = session_no[session_id]]]
  /\ UNCHANGED <<clock, n_created, session_no, pending_attr, pending_downloads, download_progress, tasks, tmp, pd, pub, now, gate, n_sweeps, sched, db_up, calls>>

\* a refresh that writes the fresh URL into the stored payload
FD_RefreshStored(r) ==
  /\ fd[r].pc = "refresh"
  /\ \E u \in FreshUrls :
       /\ fd' = [fd EXCEPT ![r] = [@ EXCEPT !.pc = "route", !.direct_url = u]]
       /\ pending_downloads' =
            IF fd[r].session_id \in DOMAIN pending_downloads
            THEN [pending_downloads EXCEPT ![fd[r].session_id].direct_url = u]
            ELSE pending_downloads
  /\ UNCHANGED <<clock, n_created, session_no, pending_attr, download_progress, tasks, tmp, pd, pub, now, gate, n_sweeps, sched, db_up, calls>>

\* app.py 1077-1094: Bilibili.tv URL refresh into the local direct_url
FD_Refresh(r) ==
  /\ fd[r].pc = "refresh"
  /\ \/ \E u \in FreshUrls :
          fd' = [fd EXCEPT ![r] = [@ EXCEPT !.pc = "route", !.direct_url = u]]
     \/ fd' = [fd EXCEPT ![r] = [@ EXCEPT !.pc = "route"]]
  /\ UNCHANGED <<clock, n_created, session_no, pending_attr, pending_downloads, download_progress, tasks, tmp, pd, pub, now, gate, n_sweeps, sched, db_up, calls>>

\* app.py 1097-1100 and 1156: choose the path; the Safety Gate on the direct path
FD_Route(r) ==
  /\ fd[r].pc = "route"
  /\ fd' = [fd EXCEPT ![r] =
              IF StartsWithHttp(fd[r].direct_url)
              THEN IF ~is_safe_public_url(Text(fd[r].direct_url), NoAllowHosts, EngineAnswer)
                   THEN FdReturn(r, 400)
                   ELSE [@ EXCEPT !.pc = "fetch", !.checked = fd[r].direct_url]
              ELSE [@ EXCEPT !.pc = "ytdlp"]]
  /\ UNCHANGED <<clock, n_created, session_no, pending_attr, pending_downloads, download_progress, tasks, tmp, pd, pub, now, gate, n_sweeps, sched, db_up, calls>>

\* app.py 1121-1133: requests.get, the size ceiling, the upstream status
FD_Fetch(r) ==
  /\ fd[r].pc = "fetch"
  /\ \/ \* requests.get raises: except branch, 500
        fd' = [fd EXCEPT ![r] = [FdReturn(r, 500) EXCEPT !.fetched = TRUE,
                                                         !.fetched_url = fd[r].direct_url]]
     \/ \E code \in {200, 403}, cl \in ContentLengths :
          fd' = [fd EXCEPT ![r] =
                   IF cl # 0 /\ cl > max_bytes
                   THEN [FdReturn(r, 413) EXCEPT !.fetched = TRUE,
                                                 !.fetched_url = fd[r].direct_url]
                   ELSE IF code # 200
                   THEN [FdReturn(r, code) EXCEPT !.fetched = TRUE,
                                                  !.fetched_url = fd[r].direct_url,
                                                  !.upstream = code]
                   ELSE [@ EXCEPT !.pc = "del_direct", !.fetched = TRUE,
                                  !.fetched_url = fd[r].direct_url]]
  /\ UNCHANGED <<clock, n_created, session_no, pending_attr, pending_downloads, download_progress, tasks, tmp, pd, pub, now, gate, n_sweeps, sched, db_up, calls>>

\* del get_download_url.pending_downloads[session_id]: KeyError when the key is gone
DelSession(r, next) ==
  IF fd[r].session_id \in DOMAIN pending_downloads
  THEN /\ pending_downloads' = Del(pending_downloads, fd[r].session_id)
       /\ fd' = [fd EXCEPT ![r] = [@ EXCEPT !.pc = next, !.status = 200]]
  ELSE /\ pending_downloads' = pending_downloads
       /\ fd' = [fd EXCEPT ![r] = FdReturn(r, 500)]

\* app.py 1143-1154: delete the session, return the streaming Response
FD_DelDirect(r) ==
  /\ fd[r].pc = "del_direct"
  /\ DelSession(r, "stream_direct")
  /\ UNCHANGED <<clock, n_created, session_no, pending_attr, download_progress, tasks, tmp, pd, pub, now, gate, n_sweeps, sched, db_up, calls>>

\* app.py 1135-1141: relay the upstream chunks (errors are swallowed)
FD_StreamDirect(r) ==
  /\ fd[r].pc = "stream_direct"
  /\ fd' = [fd EXCEPT ![r] = FdReturn(r, 200)]
  /\ UNCHANGED <<clock, n_created, session_no, pending_attr, pending_downloads, download_progress, tasks, tmp, pd, pub, now, gate, n_sweeps, sched, db_up, calls>>

\* app.py 1159-1180: mkdtemp, ydl.download, look for the downloaded file
FD_Ytdlp(r) ==
  /\ fd[r].pc = "ytdlp"
  /\ \/ \* ydl.download raises (a partial file may be left): 500
        \E partial \in BOOLEAN :
          /\ tmp' = [tmp EXCEPT ![r] = [dir |-> TRUE, file |-> FALSE, parts |-> partial]]
          /\ fd' = [fd EXCEPT ![r] = [FdReturn(r, 500) EXCEPT !.fetched = TRUE]]
     \/ \* no file with the expected prefix: "Download failed", 500
        /\ tmp' = [tmp EXCEPT ![r] = [dir |-> TRUE, file |-> FALSE, parts |-> FALSE]]
        /\ fd' = [fd EXCEPT ![r] = [FdReturn(r, 500) EXCEPT !.fetched = TRUE]]
     \/ \* the file is there
        /\ tmp' = [tmp EXCEPT ![r] = [dir |-> TRUE, file |-> TRUE, parts |-> FALSE]]
        /\ fd' = [fd EXCEPT ![r] = [@ EXCEPT !.pc = "del_deleg", !.fetched = TRUE]]
  /\ UNCHANGED <<clock, n_created, session_no, pending_attr, pending_downloads, download_progress, tasks, pd, pub, now, gate, n_sweeps, sched, db_up, calls>>

\* app.py 1199-1212: delete the session, return the streaming Response
FD_DelDeleg(r) ==
  /\ fd[r].pc = "del_deleg"
  /\ DelSession(r, "stream_deleg")
  /\ UNCHANGED <<clock, n_created, session_no, pending_attr, download_progress, tasks, tmp, pd, pub, now, gate, n_sweeps, sched, db_up, calls>>

\* os.remove(downloaded_file); os.rmdir(temp_dir) under a bare except
RemoveFileAndDir(t) ==
  [dir |-> t.dir /\ t.parts, file |-> FALSE, parts |-> t.parts]

\* app.py 1185-1197: generate() of the delegated path. The cleanup follows the
\* read loop without try/finally: it runs only when the loop runs to its end.
FD_StreamDeleg(r) ==
  /\ fd[r].pc = "stream_deleg"
  /\ \/ /\ tmp' = [tmp EXCEPT ![r] = RemoveFileAndDir(@)]
        /\ fd' = [fd EXCEPT ![r] = FdReturn(r, 200)]
     \/ \* the client disconnects (GeneratorExit at the yield) or the read raises
        /\ tmp' = tmp
        /\ fd' = [fd EXCEPT ![r] = [FdReturn(r, 200) EXCEPT !.pc = "aborted"]]
  /\ UNCHANGED <<clock, n_created, session_no, pending_attr, pending_downloads, download_progress, tasks, pd, pub, now, gate, n_sweeps, sched, db_up, calls>>

force_download(r) ==
  \/ \E session_id \in SessionIds : FD_Lookup(r, session_id)
  \/ FD_Refresh(r)
  \/ FD_Route(r)
  \/ FD_Fetch(r)
  \/ FD_DelDirect(r)
  \/ FD_StreamDirect(r)
  \/ FD_Ytdlp(r)
  \/ FD_DelDeleg(r)
  \/ FD_StreamDeleg(r)

NextForce ==
  \/ Tick
  \/ \E payload \in Payloads : get_download_url(payload)
  \/ \E r \in FDReqs : force_download(r)

SpecForce == Init /\ [][NextForce]_vars

\* ------------------------------------------------------------ proxy_download
\* Request parameters of proxy_download; session_id Absent: str(time.time())
PdRequests ==
  [video_url : VideoUrls, direct_url : DirectUrls, format_id : {"f1"},
   filename : {"clip.mp4"}, platform : Platforms, session_id : {Absent, 0}]

\* round(x, 1) of (downloaded / total) * 100, in tenths of a percent:
\* the nearest tenth, a tie going to the even one
Round1(downloaded, total) ==
  LET n == downloaded * 1000
      q == n \div total
      twice == 2 * (n - q * total)
  IN IF twice > total \/ (twice = total /\ q % 2 = 1) THEN q + 1 ELSE q

Pct(percent) == percent * 10

\* return jsonify(...), code
PdReturn(q, code) == [pd[q] EXCEPT !.pc = "done", !.status = code]

\* the snapshot written, as the history fields of the request see it
Wrote(rec, payload) ==
  [rec EXCEPT !.wrote = TRUE,
              !.written = payload,
              !.last_pct = IF payload.status = "downloading" /\ payload.percent # Absent
                           THEN payload.percent ELSE @]

\* app.py 1578-1585: except Exception: drop the progress entry, 500
PdExcept(q) ==
  /\ download_progress' = Del(download_progress, pd[q].session_id)
  /\ pd' = [pd EXCEPT ![q] = PdReturn(q, 500)]

\* app.py 1272-1313: parameters, validation, task bootstrap, first snapshot
PD_Start(q, req) ==
  /\ pd[q].pc = "idle"
  /\ IF req.video_url = None /\ req.direct_url = None
     THEN /\ pd' = [pd EXCEPT ![q] = PdReturn(q, 400)]
          /\ UNCHANGED <<download_progress, tasks>>
     ELSE LET session_id == IF req.session_id = Absent THEN clock ELSE req.session_id
              payload == Snap("starting", "Memulai download...", Pct(0), Absent, Absent)
              t1 == upsert_task(tasks, session_id,
                      [platform |-> req.platform,
                       source_url |-> IF req.video_url # None THEN req.video_url
                                      ELSE req.direct_url,
                       direct_url |-> req.direct_url,
                       requested_filename |-> req.filename,
                       status |-> None, message |-> None])
          IN /\ _update_progress(session_id, payload, t1)
             /\ pd' = [pd EXCEPT ![q] =
                         Wrote([@ EXCEPT !.pc = "route", !.session_id = session_id,
                                         !.video_url = req.video_url,
                                         !.direct_url = req.direct_url,
                                         !.format_id = req.format_id,
                                         !.filename = req.filename,
                                         !.platform = req.platform], payload)]
  /\ UNCHANGED <<clock, n_created, session_no, pending_attr, pending_downloads, tmp, fd, pub, now, gate, n_sweeps, sched, db_up, calls>>

\* app.py 1316-1320 and 1435: choose the mode; the Safety Gate in direct mode
PD_Route(q) ==
  /\ pd[q].pc = "route"
  /\ pd' = [pd EXCEPT ![q] =
              IF pd[q].direct_url # None /\ pd[q].platform \in {"instagram", "bilibili_tv"}
              THEN IF ~is_safe_public_url(Text(pd[q].direct_url), NoAllowHosts, EngineAnswer)
                   THEN [PdReturn(q, 400) EXCEPT !.mode = "direct"]
                   ELSE [@ EXCEPT !.mode = "direct", !.checked = pd[q].direct_url,
                                  !.pc = IF pd[q].platform = "bilibili_tv"
                                         THEN "refresh" ELSE "mkdtemp"]
              ELSE [@ EXCEPT !.mode = "delegated", !.pc = "deleg_start"]]
  /\ UNCHANGED <<clock, n_created, session_no, pending_attr, pending_downloads,
                 download_progress, tasks, tmp, fd, pub, now, gate, n_sweeps, sched, db_up, calls>>

\* app.py 1323-1345: the "extracting" snapshot, then the Bilibili.tv URL refresh
PD_Refresh(q) ==
  LET payload == Snap("extracting", "Refreshing video URL...", Pct(5), Absent, Absent)
  IN /\ pd[q].pc = "refresh"
     /\ _update_progress(pd[q].session_id, payload, tasks)
     /\ \/ \E u \in FreshUrls :
             /\ pd[q].video_url # None
             /\ pd' = [pd EXCEPT ![q] = Wrote([@ EXCEPT !.pc = "mkdtemp", !.direct_url = u],
                                              payload)]
        \/ pd' = [pd EXCEPT ![q] = Wrote([@ EXCEPT !.pc = "mkdtemp"], payload)]
     /\ UNCHANGED <<clock, n_created, session_no, pending_attr, pending_downloads, tmp, fd, pub, now, gate, n_sweeps, sched, db_up, calls>>

\* app.py 1347-1355: temp dir, storage registration, the percent 10 snapshot
PD_Mkdtemp(q) ==
  LET payload == Snap("downloading",
                      IF pd[q].platform = "instagram" THEN "Downloading instagram video..."
                      ELSE "Downloading bilibili_tv video...",
                      Pct(10), Absent, Absent)
  IN /\ pd[q].pc = "mkdtemp"
     /\ tmp' = [tmp EXCEPT ![q] = [dir |-> TRUE, file |-> FALSE, parts |-> FALSE]]
     /\ _update_progress(pd[q].session_id, payload,
                         register_storage(tasks, pd[q].session_id, TempPath(q), Absent))
     /\ pd' = [pd EXCEPT ![q] = Wrote([@ EXCEPT !.pc = "fetch"], payload)]
     /\ UNCHANGED <<clock, n_created, session_no, pending_attr, pending_downloads, fd, pub, now, gate, n_sweeps, sched, db_up, calls>>

\* Upstream responses: status code and Content-Length (0: no header)
Responses(codes, lengths) == [code : codes, cl : lengths]

\* app.py 1367-1380: requests.get, the size ceiling, open(temp_file, 'wb').
\* response.status_code is not read.
PD_Fetch(q, responses) ==
  /\ pd[q].pc = "fetch"
  /\ \/ /\ download_progress' = Del(download_progress, pd[q].session_id)
        /\ pd' = [pd EXCEPT ![q] = [PdReturn(q, 500) EXCEPT
                                      !.fetched_url = pd[q].direct_url]]
        /\ tmp' = tmp
     \/ \E response \in responses :
          IF response.cl # 0 /\ response.cl > max_bytes
          THEN /\ pd' = [pd EXCEPT ![q] = [PdReturn(q, 413) EXCEPT
                                            !.fetched_url = pd[q].direct_url,
                                            !.upstream = response.code]]
               /\ UNCHANGED <<download_progress, tmp>>
          ELSE /\ pd' = [pd EXCEPT ![q] = [@ EXCEPT !.pc = "chunks",
                                                   !.total_size = response.cl,
                                                   !.downloaded = 0,
                                                   !.fetched_url = pd[q].direct_url,
                                                   !.upstream = response.code]]
               /\ tmp' = [tmp EXCEPT ![q] = [@ EXCEPT !.file = TRUE]]
               /\ download_progress' = download_progress
  /\ UNCHANGED <<clock, n_created, session_no, pending_attr, pending_downloads, tasks, fd, pub, now, gate, n_sweeps, sched, db_up, calls>>

\* the body has more to deliver
MoreBody(rec) ==
  IF rec.total_size # 0 THEN rec.downloaded < rec.total_size
  ELSE rec.downloaded < MaxChunks * chunk_size

\* len(chunk) of the next chunk of iter_content(chunk_size=524288)
NextChunkLen(rec) ==
  IF rec.total_size # 0 /\ rec.total_size - rec.downloaded < chunk_size
  THEN rec.total_size - rec.downloaded ELSE chunk_size

\* app.py 1381-1393: one chunk written; a snapshot only when the total is known
PD_Chunk(q) ==
  /\ pd[q].pc = "chunks"
  /\ \/ /\ MoreBody(pd[q])
        /\ LET downloaded == pd[q].downloaded + NextChunkLen(pd[q])
               payload == Snap("downloading", "Downloading video...",
                               Round1(downloaded, pd[q].total_size),
                               downloaded, pd[q].total_size)
           IN IF pd[q].total_size # 0
              THEN /\ _update_progress(pd[q].session_id, payload, tasks)
                   /\ pd' = [pd EXCEPT ![q] = Wrote([@ EXCEPT !.downloaded = downloaded],
                                                    payload)]
              ELSE /\ pd' = [pd EXCEPT ![q] = [@ EXCEPT !.downloaded = downloaded]]
                   /\ UNCHANGED <<download_progress, tasks>>
     \/ \* iter_content raises (connection lost)
        /\ MoreBody(pd[q])
        /\ PdExcept(q)
        /\ tasks' = tasks
  /\ UNCHANGED <<clock, n_created, session_no, pending_attr, pending_downloads, tmp, fd, pub, now, gate, n_sweeps, sched, db_up, calls>>

\* app.py 1395-1433: size registered, the "streaming" snapshot, the Response
PD_DownloadDone(q) ==
  LET payload == Snap("streaming", "Mengirim file ke browser...", Pct(100), Absent, Absent)
  IN /\ pd[q].pc = "chunks"
     /\ pd[q].total_size # 0 => ~MoreBody(pd[q])
     /\ _update_progress(pd[q].session_id, payload,
                         register_storage(tasks, pd[q].session_id, TempPath(q),
                                          pd[q].downloaded))
     /\ pd' = [pd EXCEPT ![q] = Wrote([@ EXCEPT !.pc = "stream_direct", !.status = 200],
                                      payload)]
     /\ UNCHANGED <<clock, n_created, session_no, pending_attr, pending_downloads, tmp, fd, pub, now, gate, n_sweeps, sched, db_up, calls>>

\* app.py 1409-1424: generate() of direct mode: the finally removes the temp file
\* and the temp dir, whether the loop ended or the client went away
PD_StreamDirect(q) ==
  /\ pd[q].pc = "stream_direct"
  /\ \E how \in {"complete", "disconnect"} :
       pd' = [pd EXCEPT ![q] = [@ EXCEPT !.pc = "done", !.ended = how]]
  /\ tmp' = [tmp EXCEPT ![q] = RemoveFileAndDir(@)]
  /\ UNCHANGED <<clock, n_created, session_no, pending_attr, pending_downloads,
                 download_progress, tasks, fd, pub, now, gate, n_sweeps, sched, db_up, calls>>


\* Keys a "downloading" progress dict of the extractor carries for the total
HookKinds == {"total_bytes", "total_bytes_estimate", "none"}
\* 'http_chunk_size': 1048576, in KiB: downloaded_bytes grows by it per callback
http_chunk_size == 1024
\* bytes of one stream
StreamTotal == MaxHooks * http_chunk_size

\* app.py 1437-1506: temp dir, the hook and options, the "extracting" snapshot
PD_DelegStart(q) ==
  LET payload == Snap("extracting", "Mengambil informasi video...", Pct(5), Absent, Absent)
  IN /\ pd[q].pc = "deleg_start"
     /\ tmp' = [tmp EXCEPT ![q] = [dir |-> TRUE, file |-> FALSE, parts |-> FALSE]]
     /\ _update_progress(pd[q].session_id, payload, tasks)
     /\ pd' = [pd EXCEPT ![q] = Wrote([@ EXCEPT !.pc = "extract"], payload)]
     /\ UNCHANGED <<clock, n_created, session_no, pending_attr, pending_downloads, fd, pub, now, gate, n_sweeps, sched, db_up, calls>>

\* app.py 1441-1483: progress_hook(d), called by the extractor for each stream
progress_hook(q, d) ==
  LET payload ==
        IF d.status = "downloading"
        THEN IF d.kind = "none"
             THEN Snap("downloading", "Downloading video...", Absent,
                       d.downloaded_bytes, Absent)
             ELSE Snap("downloading", "Downloading video...",
                       Round1(d.downloaded_bytes, d.total), d.downloaded_bytes, d.total)
        ELSE Snap("processing", "Memproses video (merging audio+video)...", Pct(95),
                  Absent, Absent)
  IN /\ _update_progress(pd[q].session_id, payload, tasks)
     /\ pd' = [pd EXCEPT ![q] =
                 Wrote(IF d.status = "downloading"
                       THEN [@ EXCEPT !.hooks = @ + 1, !.downloaded = d.downloaded_bytes]
                       ELSE [@ EXCEPT !.stream = @ + 1, !.hooks = 0, !.downloaded = 0],
                       payload)]

\* ydl.extract_info(video_url, download=True) downloading one more piece of a
\* stream, or finishing the stream
PD_Hook(q) ==
  /\ pd[q].pc = "extract"
  /\ pd[q].video_url # None
  /\ pd[q].stream < MaxStreams
  /\ \/ /\ pd[q].hooks < MaxHooks
        /\ \E kind \in HookKinds :
             progress_hook(q, [status |-> "downloading", kind |-> kind,
                               downloaded_bytes |-> pd[q].downloaded + http_chunk_size,
                               total |-> StreamTotal])
     \/ /\ pd[q].hooks >= 1
        /\ progress_hook(q, [status |-> "finished", kind |-> "none",
                             downloaded_bytes |-> pd[q].downloaded, total |-> StreamTotal])
  /\ UNCHANGED <<clock, n_created, session_no, pending_attr, pending_downloads, tmp, fd, pub, now, gate, n_sweeps, sched, db_up, calls>>

\* app.py 1508-1517 raising (extract_info fails, or getsize of a file the
\* extractor wrote under another name): the except branch
PD_ExtractFail(q) ==
  /\ pd[q].pc = "extract"
  /\ PdExcept(q)
  /\ \E partial \in BOOLEAN :
       tmp' = [tmp EXCEPT ![q] = [dir |-> TRUE, file |-> FALSE, parts |-> partial]]
  /\ UNCHANGED <<clock, n_created, session_no, pending_attr, pending_downloads, tasks, fd, pub, now, gate, n_sweeps, sched, db_up, calls>>

\* app.py 1508-1524 and 1558-1576: download complete, the "streaming" snapshot,
\* the Response
PD_ExtractDone(q) ==
  LET payload == Snap("streaming", "Mengirim file ke browser...", Pct(100), Absent, Absent)
  IN /\ pd[q].pc = "extract"
     /\ pd[q].video_url # None
     /\ pd[q].stream >= 1 /\ pd[q].hooks = 0
     /\ tmp' = [tmp EXCEPT ![q] = [dir |-> TRUE, file |-> TRUE, parts |-> FALSE]]
     /\ _update_progress(pd[q].session_id, payload, tasks)
     /\ pd' = [pd EXCEPT ![q] = Wrote([@ EXCEPT !.pc = "stream_deleg", !.status = 200],
                                      payload)]
     /\ UNCHANGED <<clock, n_created, session_no, pending_attr, pending_downloads, fd, pub, now, gate, n_sweeps, sched, db_up, calls>>

\* app.py 1541-1556: the finally of generate(): remove the file, rmdir the temp
\* dir, then drop the progress entry; an OSError of rmdir skips the rest
DelegCleanup(t, progress, session_id) ==
  IF t.parts THEN progress ELSE Del(progress, session_id)

\* app.py 1527-1556: generate() of delegated mode
PD_StreamDeleg(q) ==
  /\ pd[q].pc = "stream_deleg"
  /\ \E how \in {"complete", "disconnect"} :
       pd' = [pd EXCEPT ![q] = [@ EXCEPT !.pc = "done", !.ended = how]]
  /\ tmp' = [tmp EXCEPT ![q] = RemoveFileAndDir(@)]
  /\ download_progress' = DelegCleanup(tmp[q], download_progress, pd[q].session_id)
  /\ UNCHANGED <<clock, n_created, session_no, pending_attr, pending_downloads, tasks, fd, pub, now, gate, n_sweeps, sched, db_up, calls>>

proxy_download(q, requests, responses) ==
  \/ \E req \in requests : PD_Start(q, req)
  \/ PD_Route(q)
  \/ PD_Refresh(q)
  \/ PD_Mkdtemp(q)
  \/ PD_Fetch(q, responses)
  \/ PD_Chunk(q)
  \/ PD_DownloadDone(q)
  \/ PD_StreamDirect(q)
  \/ PD_DelegStart(q)
  \/ PD_Hook(q)
  \/ PD_ExtractFail(q)
  \/ PD_ExtractDone(q)
  \/ PD_StreamDeleg(q)

NextProxy ==
  \/ Tick
  \/ \E q \in SoloReqs : proxy_download(q, PdRequests, Responses({200, 403}, ContentLengths))

SpecProxy == Init /\ [][NextProxy]_vars


\* ------------------------------------------- get_download_progress.generate
\* The loop counter `timeout` is kept in tenths of a second.
PubLoopBound == max_timeout * 10

\* the loop without its counter
PubSleepOnly(p) == [p EXCEPT !.pc = "check"]

\* app.py 1620-1621 and the loop test 1598: sleep, count, go on or leave the loop
PubAfterSleepOffByOne(p) ==
  [p EXCEPT !.timeout = @ + POLL_TENTHS,
            !.pc = IF p.timeout + POLL_TENTHS <= PubLoopBound THEN "check" ELSE "timeout"]

PubAfterSleep(p) ==
  [p EXCEPT !.timeout = @ + POLL_TENTHS,
            !.pc = IF p.timeout + POLL_TENTHS < PubLoopBound THEN "check" ELSE "timeout"]

\* app.py 1604: `if current != last_status`
changed_always(current, last_status) == TRUE

changed(current, last_status) == current # last_status

\* GET /api/download-progress/<session_id>: app.py 1592-1598, the loop is entered
PubStart(session_id) ==
  /\ pub.pc = "idle"
  /\ pub' = [pub EXCEPT !.pc = "check", !.session_id = session_id]
  /\ UNCHANGED <<clock, n_created, session_no, pending_attr, pending_downloads,
                 download_progress, tasks, tmp, fd, pd, now, gate, n_sweeps, sched, db_up, calls>>

\* app.py 1599 and 1616-1621: `session_id in download_progress`; when it is
\* not, the tick only sleeps
PubCheck ==
  /\ pub.pc = "check"
  /\ pub' = IF pub.session_id \in DOMAIN download_progress
            THEN [pub EXCEPT !.pc = "read", !.seen = TRUE]
            ELSE PubAfterSleep([pub EXCEPT !.saw_gone = pub.seen, !.pushed = FALSE])
  /\ UNCHANGED <<clock, n_created, session_no, pending_attr, pending_downloads,
                 download_progress, tasks, tmp, fd, pd, now, gate, n_sweeps, sched, db_up, calls>>

\* app.py 1600-1621: read the snapshot (KeyError when the Engine removed it
\* since the test), push it when it differs from the last one sent, sleep
PubRead ==
  /\ pub.pc = "read"
  /\ pub' = IF pub.session_id \notin DOMAIN download_progress
            THEN [pub EXCEPT !.pc = "crashed"]
            ELSE LET current == download_progress[pub.session_id]
                 IN IF changed(current, pub.last_status)
                    THEN PubAfterSleep(
                           [pub EXCEPT !.last_status = current,
                                       !.last_event = current,
                                       !.pushed = TRUE,
                                       !.sent_any = TRUE,
                                       !.sent_streaming = @ \/ current.status = "streaming"])
                    ELSE PubAfterSleep([pub EXCEPT !.pushed = FALSE])
  /\ UNCHANGED <<clock, n_created, session_no, pending_attr, pending_downloads,
                 download_progress, tasks, tmp, fd, pd, now, gate, n_sweeps, sched, db_up, calls>>

\* a timeout that also removes the session's entry
PubTimeoutClears ==
  /\ pub.pc = "timeout"
  /\ pub' = [pub EXCEPT !.pc = "done",
                        !.n_timeout = IF pub.timeout >= PubLoopBound THEN @ + 1 ELSE @]
  /\ download_progress' = Del(download_progress, pub.session_id)
  /\ UNCHANGED <<clock, n_created, session_no, pending_attr, pending_downloads,
                 tasks, tmp, fd, pd, now, gate, n_sweeps, sched, db_up, calls>>

\* app.py 1623-1626: the terminal timeout event, then the generator returns
PubTimeout ==
  /\ pub.pc = "timeout"
  /\ pub' = [pub EXCEPT !.pc = "done",
                        !.n_timeout = IF pub.timeout >= PubLoopBound THEN @ + 1 ELSE @]
  /\ UNCHANGED <<clock, n_created, session_no, pending_attr, pending_downloads,
                 download_progress, tasks, tmp, fd, pd, now, gate, n_sweeps, sched, db_up, calls>>

get_download_progress ==
  \/ \E session_id \in SessionIds : PubStart(session_id)
  \/ PubCheck
  \/ PubRead
  \/ PubTimeout

\* Requests and upstream bodies followed next to a publisher
PubRequests ==
  {req \in PdRequests : /\ req.video_url # None
                        /\ req.session_id = 0
                        /\ \/ req.platform \in {"instagram", "bilibili_tv"}
                              /\ req.direct_url = PublicUrl
                           \/ req.platform = "youtube" /\ req.direct_url = None}
PubContentLengths == {0, 2 * chunk_size}

NextPub ==
  \/ \E q \in SoloReqs : proxy_download(q, PubRequests, Responses({200}, PubContentLengths))
  \/ get_download_progress

SpecPub == Init /\ [][NextPub]_vars


\* ------------------------------------------- Safety Gate and proxy_image
engine_vars ==
  <<clock, n_created, session_no, pending_attr, pending_downloads, download_progress,
    tasks, tmp, fd, pd, pub, now, n_sweeps, sched, db_up, calls>>

\* One call of the gate, or one proxy_image request, per drawn input
InitGate ==
  /\ InitEngines
  /\ \E raw_url \in GateUrls, allow_hosts \in AllowLists, answer \in Answers :
       gate = [GateIdle EXCEPT !.raw_url = raw_url, !.allow_hosts = allow_hosts,
                               !.answer = answer]

\* is_safe_public_url(raw_url, allow_hosts) called and returned
SafetyGate ==
  /\ gate.pc = "idle"
  /\ gate' = [gate EXCEPT !.pc = "returned", !.checked = gate.raw_url,
                          !.result = is_safe_public_url(gate.raw_url, gate.allow_hosts,
                                                        gate.answer)]
  /\ UNCHANGED engine_vars

\* app.py 1637-1650: the url parameter, then the gate with the image hosts
PI_Check ==
  /\ gate.pc = "idle"
  /\ gate.allow_hosts = ImageHosts
  /\ gate' = IF gate.raw_url = <<>>
             THEN [gate EXCEPT !.pc = "done", !.status = 400]
             ELSE IF ~is_safe_public_url(gate.raw_url, ImageHosts, gate.answer)
             THEN [gate EXCEPT !.pc = "done", !.status = 400, !.checked = gate.raw_url]
             ELSE [gate EXCEPT !.pc = "pi_fetch", !.checked = gate.raw_url,
                               !.result = TRUE]
  /\ UNCHANGED engine_vars

\* app.py 1658-1676: requests.get(image_url): 200 relayed, anything else 500
PI_Fetch ==
  /\ gate.pc = "pi_fetch"
  /\ \E code \in {200, 500} :
       gate' = [gate EXCEPT !.pc = "done", !.status = code, !.fetched = gate.raw_url]
  /\ UNCHANGED engine_vars

proxy_image ==
  \/ PI_Check
  \/ PI_Fetch

NextGate ==
  \/ SafetyGate
  \/ proxy_image

SpecGate == InitGate /\ [][NextGate]_vars

\* -------------------------------------------------------- Retention Sweeper
\* Time passes by one retention window, or by one hour more than that
TimeSteps == {DOWNLOAD_RETENTION_HOURS, DOWNLOAD_RETENTION_HOURS + 1}

TimePasses(h) ==
  /\ now + h <= MaxHours
  /\ now' = now + h
  /\ UNCHANGED <<clock, n_created, session_no, pending_attr, pending_downloads,
                 download_progress, tasks, tmp, fd, pd, pub, gate, n_sweeps, sched, db_up, calls>>

\* DownloadTask.query.filter(expires_at.isnot(None), expires_at < now).all()
expired(t) ==
  {session_id \in DOMAIN t :
     t[session_id].expires_at # Absent /\ t[session_id].expires_at < now}

\* task.storage_path and os.path.exists(task.storage_path)
exists(path) == path # None /\ path \in DOMAIN tmp /\ tmp[path].file

\* task_service.py 79-104, run by FileCleanupScheduler._cleanup_task_records:
\* each expired row's file is removed when it exists (an OSError of os.remove is
\* logged), then the row is deleted.
SweepRows ==
  LET gone == expired(tasks)
      present == {tasks[session_id].storage_path :
                    session_id \in {x \in gone : exists(tasks[x].storage_path)}}
  IN \E failed \in SUBSET present :
       /\ tmp' = [r \in DOMAIN tmp |->
                    IF r \in present \ failed
                    THEN [tmp[r] EXCEPT !.file = FALSE] ELSE tmp[r]]
       /\ tasks' = [session_id \in (DOMAIN tasks) \ gone |-> tasks[session_id]]

cleanup_expired_tasks ==
  /\ n_sweeps < MaxSweeps
  /\ n_sweeps' = n_sweeps + 1
  /\ SweepRows
  /\ UNCHANGED <<clock, n_created, session_no, pending_attr, pending_downloads,
                 download_progress, fd, pd, pub, now, gate, sched, db_up, calls>>

\* Sessions registered next to the sweeper
SweepPayloads ==
  {payload \in Payloads : payload.platform = "youtube" /\ payload.direct_url = None}

NextSweep ==
  \/ Tick
  \/ \E h \in TimeSteps : TimePasses(h)
  \/ \E payload \in SweepPayloads : get_download_url(payload)
  \/ \E q \in SoloReqs : proxy_download(q, PubRequests, Responses({200}, PubContentLengths))
  \/ cleanup_expired_tasks

SpecSweep == Init /\ [][NextSweep]_vars

\* ------------------------------------------------------ FileCleanupScheduler
CLEANUP_INTERVAL_HOURS == 1
CLEANUP_MAX_AGE_HOURS == 24

\* range(int(sleep_seconds / 60)): the one-minute sleeps of one interval
SleepsPerInterval == (CLEANUP_INTERVAL_HOURS * 3600) \div 60

sched_frame ==
  <<clock, n_created, session_no, pending_attr, pending_downloads, download_progress,
    fd, pd, pub, now, gate, n_sweeps, db_up, calls>>

\* file_cleanup.py 27-37, called at app.py 64: the configuration, then start()
\* (43-52) when the feature is enabled.  folders: the old files found on disk.
init_app(enabled, folders) ==
  /\ ~sched.inited
  /\ sched' = [sched EXCEPT !.inited = TRUE, !.enabled = enabled, !.folders = folders,
                            !.running = enabled,
                            !.thread = IF enabled THEN "while" ELSE "none"]
  /\ UNCHANGED <<tasks, tmp>>
  /\ UNCHANGED sched_frame

\* file_cleanup.py 39-41, called at app.py 71
enable_task_tracking ==
  /\ sched.inited /\ ~sched.track_tasks
  /\ sched' = [sched EXCEPT !.track_tasks = TRUE]
  /\ UNCHANGED <<tasks, tmp>>
  /\ UNCHANGED sched_frame

\* file_cleanup.py 103-116: _cleanup_task_records; cleanup_expired_tasks may
\* raise in its query (nothing done) or in its commit (files removed, the rows
\* stay); the exception is logged
CleanupTaskRecords(raises) ==
  IF ~sched.track_tasks THEN UNCHANGED <<tasks, tmp>>
  ELSE IF ~raises THEN SweepRows
  ELSE \/ UNCHANGED <<tasks, tmp>>
       \/ /\ tasks' = tasks
          /\ \E removed \in SUBSET {tasks[session_id].storage_path :
                                      session_id \in {x \in expired(tasks) :
                                                        exists(tasks[x].storage_path)}} :
               tmp' = [r \in DOMAIN tmp |->
                         IF r \in removed THEN [tmp[r] EXCEPT !.file = FALSE] ELSE tmp[r]]

\* a folder sweep that also takes the files exactly as old as the cutoff
_cleanup_folder_inclusive(entries, folder, cutoff_time, bad_files) ==
  {e \in entries : /\ e.folder = folder
                   /\ e.kind # "dir"
                   /\ e.mtime <= cutoff_time
                   /\ e.name \notin bad_files}

\* file_cleanup.py 118-145: the entries of the folder that are deleted: regular
\* files older than the cutoff whose getmtime / getsize / remove does not raise
_cleanup_folder(entries, folder, cutoff_time, bad_files) ==
  {e \in entries : /\ e.folder = folder
                   /\ e.kind # "dir"
                   /\ e.mtime < cutoff_time
                   /\ e.name \notin bad_files}

\* a sweep that does not look at the enabled flag
CleanupAlways(after, failures) ==
  LET cutoff_time == now - CLEANUP_MAX_AGE_HOURS
      deleted == UNION {_cleanup_folder(sched.folders, folder, cutoff_time, failures.files) :
                          folder \in Folders \ failures.folders}
  IN /\ sched' = [after EXCEPT !.call_bit = ~@, !.errors = failures,
                               !.folders = @ \ deleted]
     /\ CleanupTaskRecords(failures.rows)

\* a sweep that gives up at the first folder that raises
CleanupAbortsOnError(after, failures) ==
  IF ~sched.enabled \/ failures.folders # {}
  THEN /\ sched' = [after EXCEPT !.call_bit = ~@,
                                 !.errors = IF sched.enabled THEN failures ELSE NoFailure]
       /\ UNCHANGED <<tasks, tmp>>
  ELSE LET cutoff_time == now - CLEANUP_MAX_AGE_HOURS
           deleted == UNION {_cleanup_folder(sched.folders, folder, cutoff_time, failures.files) :
                               folder \in Folders}
       IN /\ sched' = [after EXCEPT !.call_bit = ~@, !.errors = failures,
                                    !.folders = @ \ deleted]
          /\ CleanupTaskRecords(failures.rows)

\* file_cleanup.py 76-101: cleanup_old_files; after: the scheduler's other
\* fields after the call.  A folder whose sweep raises is logged and skipped
\* (90-95), then the Task Records are swept (101).
CleanupOldFiles(after, failures) ==
  IF ~sched.enabled
  THEN /\ sched' = [after EXCEPT !.call_bit = ~@, !.errors = NoFailure]
       /\ UNCHANGED <<tasks, tmp>>
  ELSE LET cutoff_time == now - CLEANUP_MAX_AGE_HOURS
           deleted == UNION {_cleanup_folder(sched.folders, folder, cutoff_time, failures.files) :
                               folder \in Folders \ failures.folders}
       IN /\ sched' = [after EXCEPT !.call_bit = ~@, !.errors = failures,
                                    !.folders = @ \ deleted]
          /\ CleanupTaskRecords(failures.rows)

\* cleanup_old_files called on the scheduler object
cleanup_old_files(choices) ==
  /\ sched.inited
  /\ \E failures \in choices : CleanupOldFiles(sched, failures)
  /\ UNCHANGED sched_frame

\* a loop that does not read the flag: while True
T_WhileTrue ==
  /\ sched.thread = "while"
  /\ sched' = [sched EXCEPT !.thread = "sweep"]
  /\ UNCHANGED <<tasks, tmp>>
  /\ UNCHANGED sched_frame

\* file_cleanup.py 63: while self.running
T_While ==
  /\ sched.thread = "while"
  /\ sched' = IF sched.running THEN [sched EXCEPT !.thread = "sweep"]
              ELSE [sched EXCEPT !.thread = "exited", !.observed = TRUE]
  /\ UNCHANGED <<tasks, tmp>>
  /\ UNCHANGED sched_frame

\* file_cleanup.py 64-67: one sweep of the loop
T_Sweep(choices) ==
  /\ sched.thread = "sweep"
  /\ \E failures \in choices :
       CleanupOldFiles([sched EXCEPT !.thread = "for", !.slept = 0,
                                     !.late_sweep = @ \/ sched.observed], failures)
  /\ UNCHANGED sched_frame

\* file_cleanup.py 70-74: the flag is read before each one-minute sleep
T_For ==
  /\ sched.thread = "for"
  /\ sched' = IF sched.slept >= SleepsPerInterval THEN [sched EXCEPT !.thread = "while"]
              ELSE IF ~sched.running
              THEN [sched EXCEPT !.thread = "while", !.observed = TRUE]
              ELSE [sched EXCEPT !.slept = @ + 1]
  /\ UNCHANGED <<tasks, tmp>>
  /\ UNCHANGED sched_frame

_run_scheduler(choices) ==
  \/ T_While
  \/ T_Sweep(choices)
  \/ T_For

\* file_cleanup.py 54-57, called at app.py 1705: the flag, then thread.join(timeout=5)
S_Stop ==
  /\ sched.inited /\ sched.stop = "idle"
  /\ sched' = [sched EXCEPT !.running = FALSE,
                            !.stop = IF sched.thread # "none" THEN "joining"
                                     ELSE "returned"]
  /\ UNCHANGED <<tasks, tmp>>
  /\ UNCHANGED sched_frame

\* file_cleanup.py 57-59: join returns when the thread has exited, or after 5 s
S_Join ==
  /\ sched.stop = "joining"
  /\ sched' = [sched EXCEPT !.stop = "returned"]
  /\ UNCHANGED <<tasks, tmp>>
  /\ UNCHANGED sched_frame

stop ==
  \/ S_Stop
  \/ S_Join

NextSched ==
  \/ \E enabled \in BOOLEAN, folders \in FolderStates : init_app(enabled, folders)
  \/ enable_task_tracking
  \/ _run_scheduler(LoopFailures)
  \/ stop
  \/ \E h \in TimeSteps : TimePasses(h)
  \/ \E payload \in SweepPayloads : get_download_url(payload)

SpecSched == Init /\ [][NextSched]_vars

\* cleanup_old_files invoked next to transfers, with the feature on or off
NextCleanup ==
  \/ \E enabled \in BOOLEAN, folders \in FolderStates : init_app(enabled, folders)
  \/ enable_task_tracking
  \/ cleanup_old_files(LoopFailures)
  \/ \E h \in TimeSteps : TimePasses(h)
  \/ \E q \in SoloReqs : proxy_download(q, PubRequests, Responses({200}, PubContentLengths))

SpecCleanup == Init /\ [][NextCleanup]_vars

\* file_cleanup.py 43-52: start() called again on the scheduler object, between
\* calls of stop().  A running scheduler only warns; otherwise the
\* flag is set and self.thread is replaced by a new thread, whatever the old
\* one is doing.
start ==
  /\ sched.inited /\ sched.enabled /\ sched.stop # "joining"
  /\ sched.orphan \in {"none", "exited"}
  /\ sched' = IF sched.running THEN sched
              ELSE [sched EXCEPT !.running = TRUE, !.stop = "idle",
                                 !.orphan = sched.thread,
                                 !.orphan_slept = sched.slept,
                                 !.thread = "while", !.slept = 0,
                                 !.observed = FALSE]
  /\ UNCHANGED <<tasks, tmp>>
  /\ UNCHANGED sched_frame

\* file_cleanup.py 61-74 as the replaced thread runs it
O_While ==
  /\ sched.orphan = "while"
  /\ sched' = [sched EXCEPT !.orphan = IF sched.running THEN "sweep" ELSE "exited"]
  /\ UNCHANGED <<tasks, tmp>>
  /\ UNCHANGED sched_frame

O_Sweep(choices) ==
  /\ sched.orphan = "sweep"
  /\ \E failures \in choices :
       CleanupOldFiles([sched EXCEPT !.orphan = "for", !.orphan_slept = 0], failures)
  /\ UNCHANGED sched_frame

O_For ==
  /\ sched.orphan = "for"
  /\ sched' = IF sched.orphan_slept >= SleepsPerInterval \/ ~sched.running
              THEN [sched EXCEPT !.orphan = "while"]
              ELSE [sched EXCEPT !.orphan_slept = @ + 1]
  /\ UNCHANGED <<tasks, tmp>>
  /\ UNCHANGED sched_frame

\* stop() and start() called one after the other on a started scheduler
NextRestart ==
  \/ \E enabled \in BOOLEAN, folders \in FolderStates : init_app(enabled, folders)
  \/ _run_scheduler({NoFailure})
  \/ stop
  \/ start
  \/ O_While
  \/ O_Sweep({NoFailure})
  \/ O_For

SpecRestart == Init /\ [][NextRestart]_vars

\* the loop thread alone, with every failure a sweep can meet
NextLoop ==
  \/ \E enabled \in BOOLEAN, folders \in FolderStates : init_app(enabled, folders)
  \/ enable_task_tracking
  \/ _run_scheduler(SweepFailures)
  \/ \E h \in TimeSteps : TimePasses(h)
  \/ \E payload \in SweepPayloads : get_download_url(payload)

SpecLoop == Init /\ [][NextLoop]_vars

\* the loop thread and stop() get their turn
FairSched == SpecSched /\ WF_vars(_run_scheduler(LoopFailures)) /\ WF_vars(stop)

\* ------------------------------------- task_service calls of two threads
\* task_service.py 24-29 (upsert_task, also entered from mark_status 46 and
\* register_storage 57): the row is looked up, and a new one added to the
\* session when there is none
TS_Query(c, op, session_id) ==
  /\ calls[c].pc = "idle"
  /\ calls' = [calls EXCEPT ![c] = [@ EXCEPT !.pc = "queried", !.op = op,
                                             !.session_id = session_id,
                                             !.created = session_id \notin DOMAIN tasks]]
  /\ UNCHANGED <<clock, n_created, session_no, pending_attr, pending_downloads,
                 download_progress, tasks, tmp, fd, pd, pub, now, gate, n_sweeps, sched,
                 db_up>>

\* task_service.py 39: db.session.commit().  The INSERT of a row whose
\* session_id another thread has inserted since the lookup breaks the unique
\* constraint (models.py 18) and raises IntegrityError.
TS_Commit(c) ==
  LET session_id == calls[c].session_id
      raises == calls[c].created /\ session_id \in DOMAIN tasks
  IN /\ calls[c].pc = "queried"
     /\ calls' = [calls EXCEPT ![c] = [@ EXCEPT !.pc = "idle",
                                                !.failed = @ \/ raises,
                                                !.done = @ \/ ~raises]]
     /\ tasks' = IF raises THEN tasks
                 ELSE CASE calls[c].op = "upsert_task" ->
                             upsert_task(tasks, session_id, NoDefaults)
                        [] calls[c].op = "mark_status" ->
                             mark_status(tasks, session_id, "downloading",
                                         "Downloading video...", NoSnapshot)
                        [] OTHER ->
                             register_storage(tasks, session_id, TempPath("p1"), Absent)
     /\ UNCHANGED <<clock, n_created, session_no, pending_attr, pending_downloads,
                    download_progress, tmp, fd, pd, pub, now, gate, n_sweeps, sched,
                    db_up>>

NextCalls ==
  \/ \E c \in Callers, op \in {"upsert_task", "mark_status", "register_storage"},
        session_id \in SessionIds : TS_Query(c, op, session_id)
  \/ \E c \in Callers : TS_Commit(c)
  \/ \E h \in TimeSteps : TimePasses(h)

SpecCalls == Init /\ [][NextCalls]_vars

\* ------------------------------------- a transfer next to a failing database
\* db.session.commit() or a query starts to raise, or works again
DbFails ==
  /\ db_up
  /\ db_up' = FALSE
  /\ UNCHANGED <<clock, n_created, session_no, pending_attr, pending_downloads,
                 download_progress, tasks, tmp, fd, pd, pub, now, gate, n_sweeps, sched,
                 calls>>

DbRecovers ==
  /\ ~db_up
  /\ db_up' = TRUE
  /\ UNCHANGED <<clock, n_created, session_no, pending_attr, pending_downloads,
                 download_progress, tasks, tmp, fd, pd, pub, now, gate, n_sweeps, sched,
                 calls>>

NextDb ==
  \/ DbFails
  \/ DbRecovers
  \/ \E q \in SoloReqs : proxy_download(q, PubRequests, Responses({200}, PubContentLengths))

SpecDb == Init /\ [][NextDb]_vars

\* ------------------------------------- a publisher next to any Engine
\* Snapshots the Engines write (app.py 1309, 1387, 1402)
StoreSnapshots ==
  {Snap("starting", "Memulai download...", Pct(0), Absent, Absent),
   Snap("downloading", "Downloading video...", Pct(50), chunk_size, 2 * chunk_size),
   Snap("streaming", "Mengirim file ke browser...", Pct(100), Absent, Absent)}

\* An Engine whose session id is the clock reading (app.py 1287) writes a
\* snapshot: _update_progress, app.py 103-111
EngineWrites ==
  /\ \E session_id \in {clock}, payload \in StoreSnapshots :
       _update_progress(session_id, payload, tasks)
  /\ UNCHANGED <<clock, n_created, session_no, pending_attr, pending_downloads,
                 tmp, fd, pd, pub, now, gate, n_sweeps, sched, db_up, calls>>

\* Some Engine removes the entry: app.py 1552-1553 and 1583-1584
EngineRemoves ==
  /\ \E session_id \in DOMAIN download_progress :
       download_progress' = Del(download_progress, session_id)
  /\ UNCHANGED <<clock, n_created, session_no, pending_attr, pending_downloads,
                 tasks, tmp, fd, pd, pub, now, gate, n_sweeps, sched, db_up, calls>>

NextStore ==
  \/ EngineWrites
  \/ EngineRemoves
  \/ get_download_progress

SpecStore == Init /\ [][NextStore]_vars

\* The generator's thread keeps running and the client keeps reading
FairPub == SpecStore /\ WF_vars(get_download_progress)

\* ------------------------------------- two proxy_download requests at once
\* threaded=True: the two requests run in separate threads; their session_id
\* is the client's or the clock reading (app.py 1287)
PairRequests ==
  {req \in PdRequests : /\ req.video_url # None
                        /\ \/ req.platform \in {"instagram", "bilibili_tv"}
                              /\ req.direct_url = PublicUrl
                           \/ req.platform = "youtube" /\ req.direct_url = None}

NextPair ==
  \/ Tick
  \/ \E q \in PDReqs : proxy_download(q, PairRequests, Responses({200}, PubContentLengths))

SpecPair == Init /\ [][NextPair]_vars

\* ------------------------------------------------------------------ claims
FdActive(r) == fd[r].pc \notin {"idle", "done", "aborted"}
FdEnded(r) == fd[r].pc \in {"done", "aborted"}
\* the session a request looked up is still in the registry
StillRegistered(r) ==
  /\ fd[r].session_id \in DOMAIN pending_downloads
  /\ session_no[fd[r].session_id] = fd[r].session_no

\* C1: a session is consumed at most once: once a force_download call has
\* obtained the payload of a session and ended, no other force_download call
\* obtains the payload of that session.
C1_ConsumedAtMostOnce ==
  \A r1 \in FDReqs : \A r2 \in FDReqs \ {r1} :
    ~(/\ FdEnded(r1)
      /\ fd[r1].session_no # 0
      /\ fd[r2].session_no = fd[r1].session_no)

\* C2: two force_download requests running at the same time never both obtain
\* the payload of the same session and start a fetch for it: two engines never
\* run on the same session.
C2_NoTwoEnginesOnOneSession ==
  \A r1 \in FDReqs : \A r2 \in FDReqs \ {r1} :
    ~(/\ FdActive(r1) /\ FdActive(r2)
      /\ fd[r1].fetched /\ fd[r2].fetched
      /\ fd[r1].session_no # 0
      /\ fd[r2].session_no = fd[r1].session_no)

\* C3: the session is removed from the registry before the outbound fetch or the
\* extractor starts, and is not in the registry on any return path that follows a
\* successful lookup.
C3_RemovedBeforeFetch ==
  \A r \in FDReqs :
    (fd[r].session_no # 0 /\ (fd[r].fetched \/ FdEnded(r))) => ~StillRegistered(r)

\* C4: within one proxy_download session the percent of the snapshots written
\* with status "downloading" never decreases and stays within [0, 100].
C4_PercentMonotone ==
  [][\A q \in PDReqs :
       (pd'[q].last_pct # pd[q].last_pct)
         => /\ pd'[q].last_pct >= pd[q].last_pct
            /\ pd'[q].last_pct \in Pct(0)..Pct(100)]_vars

PdStreamed(q) == pd[q].pc = "done" /\ pd[q].status = 200
TmpGone(r) == ~tmp[r].file /\ ~tmp[r].dir

\* C8: after a successful proxy_download whose body was streamed to the end, in
\* either mode, the temp file and the temp dir are gone and the Progress Store
\* no longer holds the session id.
C8_CleanAfterSuccess ==
  \A q \in PDReqs :
    (PdStreamed(q) /\ pd[q].ended = "complete")
      => (TmpGone(q) /\ pd[q].session_id \notin DOMAIN download_progress)

\* C9: cleanup runs on every exit of the streaming phase: when the client
\* disconnects or streaming raises after the file was produced, in force_download
\* (delegated path) and in both proxy_download modes, the temp file and the
\* temp dir are gone, and in proxy_download the Progress Snapshot is removed.
C9_CleanupOnEveryExit ==
  /\ \A r \in FDReqs : fd[r].pc = "aborted" => TmpGone(r)
  /\ \A q \in PDReqs :
       (PdStreamed(q) /\ pd[q].ended = "disconnect")
         => (TmpGone(q) /\ pd[q].session_id \notin DOMAIN download_progress)

\* C10: every error outcome of proxy_download after the session's Progress Store
\* entry was written (400 unsafe direct URL, 413 too large, 500) leaves no entry
\* for the session id in the Progress Store.
C10_ProgressClearedOnError ==
  \A q \in PDReqs :
    (pd[q].pc = "done" /\ pd[q].wrote /\ pd[q].status \in {400, 413, 500})
      => pd[q].session_id \notin DOMAIN download_progress

\* C5: the Publisher ends at the first poll tick that finds the Progress Store
\* entry of its session gone after it had been there: it does not go on polling.
C5_StopsWhenEntryGone ==
  pub.saw_gone => pub.pc \in {"done", "crashed"}

\* C6: for a session whose Engine completed (the Publisher pushed a "streaming"
\* snapshot and then found the entry removed) the Publisher emits no timeout event.
C6_NoTimeoutAfterCompletion ==
  (pub.sent_streaming /\ pub.saw_gone) => pub.n_timeout = 0

\* C7: a Publisher that never finds a snapshot for its session id pushes no
\* progress event, emits exactly one timeout event, when the cumulative wait
\* has reached the ceiling of 180 s, and then ends.
C7_TimeoutWhenNothingAppears ==
  ~pub.seen =>
    /\ ~pub.sent_any
    /\ pub.n_timeout <= 1
    /\ pub.n_timeout = 1 <=> pub.pc = "done"
    /\ pub.pc \in {"timeout", "done"} <=> pub.timeout >= PubLoopBound
    /\ pub.timeout <= 10 * max_timeout

\* C7 witness: the publisher has ended on the timeout event, having found nothing,
\* while an Engine ran
C7_Witness ==
  /\ pub.pc = "done" /\ ~pub.seen /\ pub.n_timeout = 1
  /\ \E q \in PDReqs : pd[q].pc # "idle"


\* C11: when the upstream Content-Length exceeds max_bytes the engine answers
\* 413 with no body byte written, and no temp file and no temp dir of the
\* transfer is left on disk.
C11_TooLargeLeavesNothing ==
  /\ \A q \in PDReqs :
       (pd[q].pc = "done" /\ pd[q].status = 413)
         => (pd[q].downloaded = 0 /\ TmpGone(q))
  /\ \A r \in FDReqs :
       (fd[r].pc = "done" /\ fd[r].status = 413) => TmpGone(r)

\* C12: once the upstream direct-URL fetch has answered with a status other
\* than 200, the request has ended with a failure status, no body byte is in a
\* temp file, and the Progress Store has no entry for the session.
C12_UpstreamErrorAborts ==
  /\ \A q \in PDReqs :
       pd[q].upstream \notin {0, 200}
         => /\ pd[q].pc = "done" /\ pd[q].status # 200
            /\ ~tmp[q].file /\ pd[q].downloaded = 0
            /\ pd[q].session_id \notin DOMAIN download_progress
  /\ \A r \in FDReqs :
       fd[r].upstream # 0
         => (fd[r].pc = "done" /\ fd[r].status # 200 /\ ~tmp[r].file)

\* C13: a request that failed validation added nothing: a proxy_download that
\* answered 400 wrote no Progress Store entry and left no Task Record for its
\* session id, and no session without a URL is in the Session Registry.
C13_RejectedLeavesNoState ==
  /\ \A q \in PDReqs :
       (pd[q].pc = "done" /\ pd[q].status = 400)
         => /\ ~pd[q].wrote
            /\ pd[q].session_id \notin DOMAIN download_progress
            /\ pd[q].session_id \notin DOMAIN tasks
  /\ \A session_id \in DOMAIN pending_downloads :
       pending_downloads[session_id].video_url # None
         \/ pending_downloads[session_id].direct_url # None


\* the gate has returned for the drawn URL
GateReturned == gate.pc = "returned"
GateUrl == urlparse(gate.raw_url)
\* the name lookup the gate makes raises
LookupRaises ==
  /\ GateUrl.scheme \in {"http", "https"}
  /\ GateUrl.netloc # <<>>
  /\ gethostbyname(SplitColon(GateUrl.netloc), gate.answer) = "error"
\* the class of the address the URL's host resolves to
HostAddress == gethostbyname(GateUrl.hostname, gate.answer)

\* C14: is_safe_public_url fails closed: when the lookup of the URL's host
\* raises, the result is false.
C14_FailsClosed ==
  (GateReturned /\ LookupRaises) => ~gate.result

\* C15: is_safe_public_url is false for every URL whose scheme is not http or
\* https and for every URL without a host, and true for an https URL whose host
\* resolves to a public address when no allow-list is given.
C15_SchemeAndHost ==
  GateReturned =>
    /\ GateUrl.scheme \notin {"http", "https"} => ~gate.result
    /\ GateUrl.hostname = <<>> => ~gate.result
    /\ (/\ GateUrl.scheme = "https" /\ GateUrl.hostname # <<>>
        /\ gate.allow_hosts = NoAllowHosts /\ HostAddress = "public") => gate.result

\* C16: is_safe_public_url is false whenever the address the URL's host
\* resolves to is private, loopback, link-local or reserved, whatever the form
\* of the netloc (with a port, with userinfo).
C16_PrivateAddressRejected ==
  (/\ GateReturned /\ GateUrl.hostname # <<>>
   /\ HostAddress \in AddressKinds \ {"public"}) => ~gate.result

\* C17: with a non-empty allow-list the result is true only if the URL's host
\* ends with one of the suffixes and the scheme, host and private-address
\* checks pass; with the list {cdninstagram.com} the host
\* scontent.cdninstagram.com passes and evil.com does not; without a list every
\* public host passes.
C17_AllowList ==
  GateReturned =>
    /\ (gate.allow_hosts # NoAllowHosts /\ gate.result)
         => /\ \E allowed \in gate.allow_hosts :
                 \E k \in 0..Len(GateUrl.hostname) :
                   SubSeq(GateUrl.hostname, k + 1, Len(GateUrl.hostname)) = allowed
            /\ GateUrl.scheme \in {"http", "https"}
            /\ GateUrl.netloc # <<>>
            /\ ~_host_is_private(GateUrl.netloc, gate.answer)
    /\ (/\ gate.allow_hosts = {<<"cdn", "instagram.com">>}
        /\ gate.answer = "public"
        /\ gate.raw_url = <<"https", "://", "scontent.", "cdn", "instagram.com", "/v.mp4">>)
         => gate.result
    /\ (/\ gate.allow_hosts = {<<"cdn", "instagram.com">>}
        /\ GateUrl.hostname = <<"evil.com">>) => ~gate.result
    /\ (/\ gate.allow_hosts = NoAllowHosts /\ GateUrl.scheme \in {"http", "https"}
        /\ GateUrl.hostname # <<>> /\ HostAddress = "public") => gate.result

\* a host that ends with an allowed suffix passed the gate of an allow-list
C17_Witness ==
  /\ GateReturned /\ gate.result
  /\ gate.allow_hosts = ImageHosts
  /\ GateUrl.hostname = <<"scontent.", "cdn", "instagram.com">>

\* C18: every outbound fetch of force_download, proxy_download and proxy_image
\* is preceded, in the same request, by a Safety Gate check that passed the URL
\* that is fetched.
C18_FetchedUrlWasChecked ==
  /\ \A r \in FDReqs : fd[r].fetched_url # None => fd[r].checked = fd[r].fetched_url
  /\ \A q \in PDReqs : pd[q].fetched_url # None => pd[q].checked = pd[q].fetched_url
  /\ gate.fetched # <<>> => (gate.checked = gate.fetched /\ gate.result)


\* C19: every step that creates or changes a Task Record (upsert_task,
\* mark_status, register_storage) leaves the record with expires_at equal to the
\* time of the step plus the retention window.
C19_ExpiryRefreshed ==
  [][\A session_id \in DOMAIN tasks' :
       (session_id \notin DOMAIN tasks \/ tasks'[session_id] # tasks[session_id])
         => tasks'[session_id].expires_at = now' + DOWNLOAD_RETENTION_HOURS]_vars

\* after time has passed, the record of a registered session whose transfer
\* registered its storage and changed its status carries the refreshed expiry
C19_Witness ==
  /\ now > 0
  /\ \E session_id \in DOMAIN tasks :
       /\ tasks[session_id].status = "downloading"
       /\ tasks[session_id].storage_path # None
       /\ tasks[session_id].expires_at = now + DOWNLOAD_RETENTION_HOURS
       /\ \E q \in PDReqs : pd[q].session_id = session_id /\ pd[q].pc = "fetch"
       /\ session_id \in DOMAIN pending_downloads

\* C20: a run of the Retention Sweeper removes every Task Record whose
\* expires_at is earlier than now and leaves no file at its storage_path; every
\* other Task Record (expires_at in the future or unset) and its file are as
\* they were.
C20_SweepRemovesExpired ==
  [][n_sweeps' # n_sweeps =>
       \A session_id \in DOMAIN tasks :
         LET task == tasks[session_id]
         IN IF task.expires_at # Absent /\ task.expires_at < now
            THEN /\ session_id \notin DOMAIN tasks'
                 /\ task.storage_path # None => ~tmp'[task.storage_path].file
            ELSE /\ session_id \in DOMAIN tasks'
                 /\ tasks'[session_id] = task
                 /\ task.storage_path # None
                      => tmp'[task.storage_path] = tmp[task.storage_path]]_vars

\* C21: the Retention Sweeper deletes a Task Record only when no file is left
\* at its storage_path: in every step in which a record disappears, the file
\* the record pointed to does not exist afterwards, also when os.remove failed.
C21_FileGoneBeforeRecord ==
  [][\A session_id \in (DOMAIN tasks) \ (DOMAIN tasks') :
       tasks[session_id].storage_path # None
         => ~tmp'[tasks[session_id].storage_path].file]_vars

\* C22: the Retention Sweeper is safely stoppable: no sweep is started once the
\* loop has read the cleared running flag, after stop() was called the loop
\* thread eventually exits, and stop() itself eventually returns from its join.
C22_SafelyStoppable ==
  /\ [](~sched.late_sweep)
  /\ (sched.stop # "idle") ~> (sched.thread \in {"none", "exited"})
  /\ (sched.stop = "joining") ~> (sched.stop = "returned")

\* stop() has returned and the loop thread, which swept and then read the
\* cleared flag between two sleeps, has exited
C22_Witness ==
  /\ sched.stop = "returned" /\ sched.thread = "exited"
  /\ sched.observed /\ sched.call_bit
  /\ sched.slept > 0 /\ sched.slept < SleepsPerInterval

\* C23: with the cleanup feature disabled, init_app starts no thread, and a call
\* of cleanup_old_files changes nothing: the files of the swept folders, the
\* Task Records and the files they reference are as before the call.
C23_DisabledIsNoOp ==
  /\ []((sched.inited /\ ~sched.enabled) => (sched.thread = "none" /\ ~sched.running))
  /\ [][(sched'.call_bit # sched.call_bit /\ ~sched.enabled)
          => (tasks' = tasks /\ tmp' = tmp /\ sched'.folders = sched.folders)]_vars

\* cleanup_old_files has been called with the feature disabled while old files
\* were in the folders and an expired Task Record pointed to an existing file
C23_Witness ==
  /\ sched.inited /\ ~sched.enabled /\ sched.track_tasks
  /\ sched.call_bit
  /\ sched.folders = FolderEntries
  /\ \E session_id \in expired(tasks) : exists(tasks[session_id].storage_path)

\* C24: every get_download_url call generates a session id that no earlier call
\* generated, stores its payload without replacing the payload of another
\* session, and leaves a Task Record with status pending under the new id.
C24_FreshSessionId ==
  [][n_created' # n_created =>
       \E session_id \in (DOMAIN session_no') \ (DOMAIN session_no) :
         /\ session_id \in DOMAIN pending_downloads'
         /\ \A other \in DOMAIN pending_downloads :
              other \in DOMAIN pending_downloads'
                /\ pending_downloads'[other] = pending_downloads[other]
         /\ session_id \in DOMAIN tasks' /\ tasks'[session_id].status = "pending"]_vars

\* C25: once the Engine's cleanup for a session has run (the streaming of
\* proxy_download or force_download has ended), the session's Task Record has
\* status completed and no storage_path.
C25_RecordCompletedAfterCleanup ==
  /\ \A q \in PDReqs :
       (PdStreamed(q) /\ pd[q].ended # "none" /\ pd[q].session_id \in DOMAIN tasks)
         => /\ tasks[pd[q].session_id].status = "completed"
            /\ tasks[pd[q].session_id].storage_path = None
  /\ \A r \in FDReqs :
       (fd[r].pc = "done" /\ fd[r].status = 200 /\ fd[r].session_id \in DOMAIN tasks)
         => /\ tasks[fd[r].session_id].status = "completed"
            /\ tasks[fd[r].session_id].storage_path = None

\* C27: when proxy_download or force_download answers 500 because the fetch or
\* the merge raised after the temp dir was made, no temp file and no temp dir
\* of the request is left.
C27_FailureRemovesTemp ==
  /\ \A q \in PDReqs : (pd[q].pc = "done" /\ pd[q].status = 500) => TmpGone(q)
  /\ \A r \in FDReqs : (fd[r].pc = "done" /\ fd[r].status = 500) => TmpGone(r)

\* C26: whatever the Engines do to the Progress Store (the entry never
\* appears, keeps changing for ever, or is removed), a started publisher loop
\* ends: its counter never passes the ceiling, that is at most
\* max_timeout / 0.3 = 600 poll ticks, and until it has ended its next step
\* never waits for anything but the poll sleep (it is always enabled).
C26_PublisherTerminates ==
  /\ [](pub.timeout <= PubLoopBound /\ pub.timeout % POLL_TENTHS = 0)
  /\ []((pub.pc \notin {"done", "crashed"}) => ENABLED get_download_progress)
  /\ (pub.pc = "check") ~> (pub.pc \in {"done", "crashed"})

C26_Witness ==
  /\ pub.pc = "done" /\ pub.n_timeout = 1 /\ pub.timeout = PubLoopBound
  /\ pub.sent_streaming /\ pub.saw_gone
  /\ pub.session_id \in DOMAIN download_progress
  /\ download_progress[pub.session_id] # pub.last_status

\* C29: the Progress Publisher only reads. Every step of a publisher run, its
\* timeout included, leaves the Progress Store, the Session Registry, the Task
\* Records, the temp files and the Engines' requests as they were, so a
\* transfer goes on after the publisher has timed out.
C29_PublisherOnlyReads ==
  [][pub' # pub => UNCHANGED <<download_progress, pending_downloads, pending_attr,
                               tasks, tmp, pd, fd>>]_vars

C29_Witness ==
  /\ pub.pc = "done" /\ pub.n_timeout = 1
  /\ pub.last_status.status = "downloading"
  /\ PdStreamed("p1") /\ pd["p1"].ended = "complete"
  /\ pd["p1"].session_id = pub.session_id

\* C30: a poll tick pushes the stored snapshot exactly when the entry exists
\* and differs from the last snapshot sent; so an event never equals the event
\* before it on the same stream, a tick that finds no entry pushes nothing, and
\* the remembered last-sent value stays the event that was sent whatever is
\* written to the store afterwards.
C30_PushOnChangeOnly ==
  /\ [][(pub.pc = "read" /\ pub'.pc \notin {"read", "crashed"})
          => /\ (pub'.pushed <=> (download_progress[pub.session_id] # pub.last_status))
             /\ (pub'.pushed => (/\ pub'.last_event = download_progress[pub.session_id]
                                 /\ pub'.last_event # pub.last_event))
             /\ (~pub'.pushed => (pub'.last_event = pub.last_event))]_vars
  /\ [][(pub.pc = "check" /\ pub' # pub /\ pub'.pc # "read")
          => (~pub'.pushed /\ pub'.last_event = pub.last_event)]_vars
  /\ [](pub.last_status = pub.last_event)

C30_Witness ==
  /\ pub.pc = "check" /\ ~pub.pushed /\ pub.sent_streaming /\ ~pub.saw_gone
  /\ pub.session_id \in DOMAIN download_progress
  /\ download_progress[pub.session_id] = pub.last_status
  /\ pub.last_status.status = "starting"

\* C28: every Progress Store key has at most one writer at a time. No two
\* proxy_download requests that are running at once write under the same
\* session id, and the cleanup of one request never removes the entry of a
\* session another running request is writing.
C28_OneWriterPerKey ==
  /\ [](\A q1, q2 \in PDReqs :
          (q1 # q2 /\ pd[q1].pc \notin {"idle", "done"} /\ pd[q2].pc \notin {"idle", "done"})
            => pd[q1].session_id # pd[q2].session_id)
  /\ [][\A q1, q2 \in PDReqs :
          (q1 # q2 /\ pd'[q1] # pd[q1] /\ pd[q2].pc \notin {"idle", "done"})
            => pd[q2].session_id \notin (DOMAIN download_progress) \ (DOMAIN download_progress')]_vars

\* C31: a stored session payload is never changed after its creation. Only a
\* get_download_url call writes an entry of the Session Registry; every other
\* step leaves each entry that stays registered as it was, and a
\* force_download request that looked a session up and refreshed its local
\* direct_url still finds the stored payload equal to the one it read.
C31_PayloadNeverMutated ==
  /\ [][\A session_id \in (DOMAIN pending_downloads) \cap (DOMAIN pending_downloads') :
          pending_downloads'[session_id] # pending_downloads[session_id]
            => n_created' # n_created]_vars
  /\ [](\A r \in FDReqs :
          (/\ fd[r].pc \notin {"idle", "done"}
           /\ fd[r].session_id \in DOMAIN pending_downloads
           /\ session_no[fd[r].session_id] = fd[r].session_no)
            => pending_downloads[fd[r].session_id] = fd[r].info)

C31_Witness ==
  \E r \in FDReqs :
    /\ fd[r].pc \in {"route", "fetch"}
    /\ fd[r].session_id \in DOMAIN pending_downloads
    /\ session_no[fd[r].session_id] = fd[r].session_no
    /\ fd[r].direct_url # pending_downloads[fd[r].session_id].direct_url
    /\ pending_downloads[fd[r].session_id].platform = "bilibili_tv"

\* C32: the Retention Sweeper never deletes the temp file of a session whose
\* Engine is still active. While a proxy_download request is between making
\* its temp file and its own cleanup, the only step that removes the file is a
\* step of that request.
C32_OnlyOwnerRemovesTemp ==
  [][\A q \in PDReqs :
       (pd[q].pc \notin {"idle", "done"} /\ tmp[q].file /\ ~tmp'[q].file)
         => pd'[q] # pd[q]]_vars

C34_FolderSweepExact ==
  [][(sched'.call_bit # sched.call_bit /\ sched.enabled)
       => /\ sched'.folders \subseteq sched.folders
          /\ \A e \in sched.folders \ sched'.folders :
               /\ e.kind = "file"
               /\ e.folder \in Folders
               /\ e.mtime < now - CLEANUP_MAX_AGE_HOURS
          /\ sched'.errors = NoFailure =>
               sched'.folders =
                 {e \in sched.folders :
                    ~(e.kind = "file" /\ e.mtime < now - CLEANUP_MAX_AGE_HOURS)}]_vars

C34_Witness ==
  /\ sched.enabled /\ sched.call_bit /\ sched.errors = NoFailure
  /\ now = CLEANUP_MAX_AGE_HOURS
  /\ {e.name : e \in sched.folders} = {"b.tmp", "cache"}

\* C35: every Progress Snapshot held in the Progress Store or pushed by the
\* Publisher has a status in {starting, extracting, downloading, processing,
\* streaming, completed, error, timeout} (the publisher's own terminal event is
\* the timeout event counted in n_timeout), and the Task Record of a session
\* with a stored snapshot carries that snapshot and its status, as
\* _update_progress mirrored them.
C35_SnapshotStatuses ==
  /\ \A session_id \in DOMAIN download_progress :
       /\ download_progress[session_id].status \in
            {"starting", "extracting", "downloading", "processing", "streaming",
             "completed", "error", "timeout"}
       /\ session_id \in DOMAIN tasks
       /\ tasks[session_id].status = download_progress[session_id].status
       /\ tasks[session_id].last_progress = download_progress[session_id]
  /\ pub.sent_any =>
       pub.last_event.status \in
         {"starting", "extracting", "downloading", "processing", "streaming",
          "completed", "error", "timeout"}

C35_Witness ==
  /\ pub.sent_any /\ pub.last_event.status = "processing"
  /\ pub.session_id \in DOMAIN download_progress
  /\ download_progress[pub.session_id].status = "streaming"
  /\ tasks[pub.session_id].status = "streaming"

\* C37: the mirror of the Progress Store into the Task Record is best-effort.
\* Every snapshot a proxy_download request writes is installed in the Progress
\* Store whether the database answers or not; with the database down the Task
\* Records stay as they were and the request goes on (the write never ends it
\* with the failure response); with the database up the Task Record's status
\* and last_progress equal the snapshot.
C37_MirrorBestEffort ==
  [][\A q \in PDReqs :
       pd'[q].written # pd[q].written
         => /\ pd'[q].session_id \in DOMAIN download_progress'
            /\ download_progress'[pd'[q].session_id] = pd'[q].written
            /\ pd'[q].status # 500
            /\ ~db_up => tasks' = tasks
            /\ db_up => /\ pd'[q].session_id \in DOMAIN tasks'
                        /\ tasks'[pd'[q].session_id].status = pd'[q].written.status
                        /\ tasks'[pd'[q].session_id].last_progress = pd'[q].written]_vars

C37_Witness ==
  /\ ~db_up /\ tasks = Empty
  /\ PdStreamed("p1") /\ pd["p1"].ended = "complete"
  /\ pd["p1"].written.status = "streaming"

\* C36: in direct-stream mode, when the upstream sent no Content-Length, the
\* Progress Store is still updated after each chunk written: while chunks are
\* being written the session's snapshot is a "downloading" one that carries the
\* bytes downloaded so far and neither total nor percent.
C36_UnknownTotalReportsBytes ==
  \A q \in PDReqs :
    (pd[q].pc = "chunks" /\ pd[q].total_size = 0 /\ pd[q].downloaded > 0)
      => /\ pd[q].session_id \in DOMAIN download_progress
         /\ download_progress[pd[q].session_id].status = "downloading"
         /\ download_progress[pd[q].session_id].downloaded = pd[q].downloaded
         /\ download_progress[pd[q].session_id].total = Absent
         /\ download_progress[pd[q].session_id].percent = Absent

\* the order starting < extracting < downloading < processing < streaming
StatusRank(status) ==
  CASE status = "starting" -> 1
    [] status = "extracting" -> 2
    [] status = "downloading" -> 3
    [] status = "processing" -> 4
    [] status = "streaming" -> 5
    [] OTHER -> 0

\* C38: within one proxy_download session the statuses of the snapshots
\* written never go backwards in the order starting < extracting <
\* downloading < processing < streaming: no downloading snapshot follows a
\* processing one, and nothing is written after a streaming one.
C38_StatusNeverGoesBack ==
  [][\A q \in PDReqs :
       (pd[q].wrote /\ pd'[q].written # pd[q].written)
         => /\ StatusRank(pd'[q].written.status) >= StatusRank(pd[q].written.status)
            /\ pd[q].written.status # "streaming"]_vars

\* C39: after any interleaving of upsert_task, mark_status and
\* register_storage calls for one session id, the session has its one Task
\* Record (every call that has returned leaves the row of its session in the
\* table), and no call fails because another thread inserted the same id.
C39_OneRecordNoCallFails ==
  /\ [][\A c \in Callers :
          (calls[c].pc = "queried" /\ calls'[c].pc = "idle")
            => calls[c].session_id \in DOMAIN tasks']_vars
  /\ [](\A c \in Callers : ~calls[c].failed)

\* C40: after any sequence of start() and stop() calls at most one loop thread
\* is executing sweeps. A loop thread that a later start() has replaced never
\* passes its loop test again: it starts no further sweep next to the new
\* thread.
C40_OneLoopThread ==
  ~(sched.orphan = "sweep" /\ sched.thread \in {"while", "sweep", "for"})

====
